---- MODULE Spec2Model ----
(***************************************************************************)
(* Room / session state machine of the socket.io chat relay (server.js).   *)
(*                                                                         *)
(* State: the process-wide `rooms` object, the per-socket scratch data     *)
(* (socket.data), the transport's room membership of every socket          *)
(* (socket.join / socket.leave) and which sockets are still connected.     *)
(* One action per event handler; a handler runs to completion (Node's      *)
(* event loop), so every action is one atomic step.                        *)
(*                                                                         *)
(* Modelling conventions                                                   *)
(*  - `rooms` and `room.users` are plain JavaScript objects: a property    *)
(*    read obj[key] finds own properties and, failing that, the            *)
(*    properties every object inherits from Object.prototype               *)
(*    (PrototypeKeys).  Own keys are enumerated array indices first, in    *)
(*    ascending order, then the other keys in insertion order, so          *)
(*    room.users is a sequence of entries with pairwise different keys.    *)
(*  - a socket.data field holds undefined or a string: Undefined or        *)
(*    Str(s), so that no string a client sends reads as undefined.         *)
(*  - a chat text is a sequence of UTF-16 code units, so that trim() is     *)
(*    computed and not assumed.                                            *)
(*  - Date.now() is an input of the handlers that read it.                 *)
(*  - payloads are objects with string fields; createRoom, joinRoom and     *)
(*    leaveRoom are sent with or without an acknowledgment callback.       *)
(*    createRoom and joinRoom call it unguarded: without one the call      *)
(*    throws a TypeError, the catch block calls it again, and the          *)
(*    exception leaves the handler with the statements after the call      *)
(*    not run.                                                             *)
(***************************************************************************)
EXTENDS Naturals, Integers, Sequences, FiniteSets, TLC

\* ------------------------------------------------------------------ bounds

\* Number of socket connections of Spec, SpecRooms and SpecChat.
NumConns == 2

\* Number of socket connections of SpecFull.
NumConnsFull == 2

\* Chat messages a room's buffer may hold in SpecRooms.
MaxMsgs == 1

\* Chat messages a room accepts in SpecChat: past the buffer cap.
MaxAccepted == 102

\* ------------------------------------------------------- program constants

\* Room capacity in distinct usernames (joinRoom, `>= 4`).
MaxUsers == 4

\* Message buffer cap (chatMessage, `> 100` / `slice(-100)`).
MaxMessages == 100

\* ------------------------------------------------------------------ values

\* The JavaScript value undefined (a cleared or never set socket.data field):
\* a field that holds no string.
Undefined == <<>>

\* A socket.data field that holds the string s, and the string it holds.
Str(s) == <<s>>
StrOf(v) == v[1]

\* In the record of a request, a payload field the event does not carry.
Absent == "<absent>"

\* Socket ids: one per connection, never reused.
Conns == 1 .. (IF NumConns > NumConnsFull THEN NumConns ELSE NumConnsFull)

\* Room codes Math.random().toString(36).substring(2, 8).toUpperCase() yields:
\* up to six characters of the fraction, and none of them for Math.random() = 0,
\* whose base-36 text is "0".
GenCodes == {"AB12CD", ""}

\* Property names every plain object inherits from Object.prototype.
PrototypeKeys ==
    {"constructor", "__defineGetter__", "__defineSetter__", "hasOwnProperty",
     "__lookupGetter__", "__lookupSetter__", "isPrototypeOf",
     "propertyIsEnumerable", "toString", "valueOf", "__proto__", "toLocaleString"}

\* The code units String.prototype.trim removes: WhiteSpace (TAB, VT, FF, SP,
\* NBSP, U+FEFF and the space separators U+1680, U+2000..U+200A, U+202F,
\* U+205F, U+3000) and LineTerminator (LF, CR, U+2028, U+2029).
Whitespace ==
    {9, 10, 11, 12, 13, 32, 160, 5760, 8232, 8233, 8239, 8287, 12288, 65279}
        \cup (8192 .. 8202)

\* The decimal digits, and the largest array index 2^32 - 2 in decimal.
Digits == "0123456789"
MaxArrayIndex == "4294967294"

VARIABLES
    rooms,      \* the `rooms` object: room code -> [users, messages, createdAt]
    data,       \* socket.data of every socket: [currentRoomCode, username]
    joined,     \* transport rooms of every socket (socket.join / socket.leave)
    connected,  \* sockets whose "disconnect" event has not fired yet
    accepted,   \* history: per room code, the messages pushed since the room was created
    last,       \* the event the last handler was invoked with
    out         \* what the last handler sent: acknowledgment and room broadcast

vars == <<rooms, data, joined, connected, accepted, last, out>>

\* ------------------------------------------------------- JavaScript helpers

\* value is truthy, for the strings and undefined the handlers test.
Truthy(v) == v # Undefined /\ StrOf(v) # ""

\* Character i of a string.
CharAt(s, i) == SubSeq(s, i, i)

\* Every character of the string is a decimal digit.
AllDigits(s) ==
    \A i \in 1 .. Len(s) : \E d \in 1 .. Len(Digits) : CharAt(s, i) = CharAt(Digits, d)

\* Value of a decimal digit.
DigitValue(ch) == (CHOOSE d \in 1 .. Len(Digits) : CharAt(Digits, d) = ch) - 1

\* For decimal strings without leading zeros: s is numerically below t.
RECURSIVE DecimalLess(_, _, _)
DecimalLess(s, t, i) ==
    IF Len(s) # Len(t) THEN Len(s) < Len(t)
    ELSE IF i > Len(s) THEN FALSE
    ELSE IF CharAt(s, i) = CharAt(t, i) THEN DecimalLess(s, t, i + 1)
    ELSE DigitValue(CharAt(s, i)) < DigitValue(CharAt(t, i))

\* The key is an array index: the canonical decimal form of an integer in
\* 0 .. 2^32 - 2.  Own keys of this form are enumerated first, ascending.
IsArrayIndex(u) ==
    /\ Len(u) >= 1
    /\ AllDigits(u)
    /\ Len(u) > 1 => CharAt(u, 1) # "0"
    /\ ~DecimalLess(MaxArrayIndex, u, 1)

\* rooms[code] is truthy: an own room, or a value inherited from Object.prototype.
RoomTruthy(code) == code \in DOMAIN rooms \/ code \in PrototypeKeys

\* users has an own property keyed u.
OwnUser(users, u) == \E i \in 1 .. Len(users) : users[i].username = u

\* users[u] is truthy: an own UserEntry, or a value inherited from Object.prototype.
UserTruthy(users, u) == OwnUser(users, u) \/ u \in PrototypeKeys

\* Index of the own property keyed u.
UserIndex(users, u) == CHOOSE i \in 1 .. Len(users) : users[i].username = u

\* users[u] for an own property.
UserEntry(users, u) == users[UserIndex(users, u)]

\* Object.keys(users): the own keys in enumeration order.
ObjectKeys(users) == [i \in 1 .. Len(users) |-> users[i].username]

\* Array.prototype.filter(id => id !== sid)
RECURSIVE FilterOut(_, _)
FilterOut(ids, sid) ==
    IF ids = <<>> THEN <<>>
    ELSE IF Head(ids) = sid THEN FilterOut(Tail(ids), sid)
         ELSE <<Head(ids)>> \o FilterOut(Tail(ids), sid)

\* Array.prototype.includes
Includes(ids, sid) == \E i \in 1 .. Len(ids) : ids[i] = sid

\* users[u].socketIds = ids, for an own property (the key keeps its place).
SetSocketIds(users, u, ids) ==
    [i \in 1 .. Len(users) |->
        IF users[i].username = u
        THEN [username |-> users[i].username, socketIds |-> ids]
        ELSE users[i]]

\* users[u] = {username: u, socketIds: [sid]} for a key that is not an own
\* property: an array index takes its place among the array indices, any
\* other key comes last.
AddUser(users, u, sid) ==
    LET entry == [username |-> u, socketIds |-> <<sid>>]
        below == {i \in 1 .. Len(users) :
                    /\ IsArrayIndex(users[i].username)
                    /\ DecimalLess(users[i].username, u, 1)}
    IN IF IsArrayIndex(u)
       THEN SubSeq(users, 1, Cardinality(below)) \o <<entry>>
                \o SubSeq(users, Cardinality(below) + 1, Len(users))
       ELSE Append(users, entry)

\* delete users[u]
RECURSIVE DeleteUser(_, _)
DeleteUser(users, u) ==
    IF users = <<>> THEN <<>>
    ELSE IF Head(users).username = u THEN DeleteUser(Tail(users), u)
         ELSE <<Head(users)>> \o DeleteUser(Tail(users), u)

\* String.prototype.trim on a sequence of code units.
RECURSIVE TrimStart(_)
TrimStart(s) ==
    IF s # <<>> /\ Head(s) \in Whitespace THEN TrimStart(Tail(s)) ELSE s

RECURSIVE TrimEnd(_)
TrimEnd(s) ==
    IF s # <<>> /\ s[Len(s)] \in Whitespace
    THEN TrimEnd(SubSeq(s, 1, Len(s) - 1))
    ELSE s

Trim(s) == TrimEnd(TrimStart(s))

\* Array.prototype.slice(-n)
SliceLast(s, n) == IF Len(s) <= n THEN s ELSE SubSeq(s, Len(s) - n + 1, Len(s))

\* ------------------------------------------------------------ the handlers

\* getFrontendUsers(room): one {id, username} per own UserEntry, in key order;
\* id is socketIds[0] (undefined, here 0, for an empty array).
getFrontendUsers(room) ==
    [i \in 1 .. Len(room.users) |->
        [id |-> IF room.users[i].socketIds = <<>> THEN 0
                ELSE room.users[i].socketIds[1],
         username |-> room.users[i].username]]

\* rooms[code] = room
PutRoom(code, room) ==
    [k \in DOMAIN rooms \cup {code} |-> IF k = code THEN room ELSE rooms[k]]

\* delete rooms[code]
DeleteRoom(code) == [k \in DOMAIN rooms \ {code} |-> rooms[k]]

\* Mutant of NoUsersLeft: the emptiness test never succeeds (`< 0` for `=== 0`).
NoUsersLeftNever(room) == Len(ObjectKeys(room.users)) < 0

\* Object.keys(room.users).length === 0
NoUsersLeft(room) == Len(ObjectKeys(room.users)) = 0

\* callback({success: true, roomCode})
AckJoined(code) == [success |-> TRUE, roomCode |-> code]

\* callback({success: true})
AckOk == [success |-> TRUE]

\* callback({success: false, error})
AckError(msg) == [success |-> FALSE, error |-> msg]

\* The sockets in transport room `code`, given every socket's rooms.
InTransportRoom(j, code) == {c \in Conns : code \in j[c]}

\* io.to(code).emit("roomUpdate", {users: getFrontendUsers(room)})
RoomUpdate(code, room, j) ==
    [event |-> "roomUpdate", room |-> code, to |-> InTransportRoom(j, code),
     users |-> getFrontendUsers(room)]

\* io.to(code).emit("chatMessage", msg)
ChatEmit(code, msg, j) ==
    [event |-> "chatMessage", room |-> code, to |-> InTransportRoom(j, code),
     msg |-> msg]

\* What a handler sent: the acknowledgment (at most one), the room broadcast (at
\* most one) and the console lines that tell its branches apart.
Sent(ack, emit, log) == [ack |-> ack, emit |-> emit, log |-> log, error |-> <<>>]

\* What a handler sent when it called a callback the client did not send: the
\* console lines up to the call, then the TypeError that leaves the handler.
Escaped(log) ==
    [ack |-> <<>>, emit |-> <<>>, log |-> log,
     error |-> <<"TypeError: callback is not a function">>]

\* The event a handler was invoked with; for createRoom, roomCode is the code
\* the handler generated; a field the event does not carry is Absent;
\* callback tells whether the client sent an acknowledgment callback.
Request(op, c, code, u, m, cb) ==
    [op |-> op, conn |-> c, roomCode |-> code, username |-> u, message |-> m,
     callback |-> cb]

\* socket.data.currentRoomCode = code; socket.data.username = u, each a
\* string Str(s) or Undefined.
SetData(c, code, u) ==
    [data EXCEPT ![c] = [currentRoomCode |-> code, username |-> u]]

\* socket.on("createRoom", ({username}, callback) => ...), with `code` the first
\* sampled room code for which rooms[code] is falsy and `now` the value of
\* Date.now().
CreateRoom(c, u, code, now, cb) ==
    /\ connected[c]
    /\ ~RoomTruthy(code)
    /\ LET room == [users |-> <<[username |-> u, socketIds |-> <<c>>]>>,
                    messages |-> <<>>,
                    createdAt |-> now]
           j == [joined EXCEPT ![c] = @ \cup {code}]
       IN /\ rooms' = PutRoom(code, room)
          /\ joined' = j
          /\ data' = SetData(c, Str(code), Str(u))
          /\ accepted' = [accepted EXCEPT ![code] = <<>>]
          /\ out' = IF cb
                    THEN Sent(<<AckJoined(code)>>, <<RoomUpdate(code, room, j)>>,
                              <<"Room created">>)
                    ELSE Escaped(<<>>)
    /\ last' = Request("createRoom", c, code, u, <<>>, cb)
    /\ UNCHANGED connected

\* Mutant of JoinOutcome: the capacity test is `>` instead of `>=`.
JoinOutcomeLateFull(c, code, u) ==
    IF ~RoomTruthy(code) THEN "Room not found"
    ELSE IF code \notin DOMAIN rooms THEN "Failed to join room"
    ELSE IF Len(ObjectKeys(rooms[code].users)) > MaxUsers
            /\ ~UserTruthy(rooms[code].users, u)
         THEN "Room is full"
    ELSE IF ~UserTruthy(rooms[code].users, u) THEN "new user"
    ELSE IF ~OwnUser(rooms[code].users, u) THEN "Failed to join room"
    ELSE IF ~Includes(UserEntry(rooms[code].users, u).socketIds, c) THEN "re-joined"
    ELSE "already present"

\* The outcome of joinRoom: the branch of lines 110-126 it takes ("re-joined",
\* "already present", "new user"), or the error it acknowledges.
JoinOutcome(c, code, u) ==
    IF ~RoomTruthy(code) THEN "Room not found"
    ELSE IF code \notin DOMAIN rooms
         THEN "Failed to join room"   \* Object.keys(room.users): users is undefined
    ELSE IF Len(ObjectKeys(rooms[code].users)) >= MaxUsers
            /\ ~UserTruthy(rooms[code].users, u)
         THEN "Room is full"
    ELSE IF ~UserTruthy(rooms[code].users, u) THEN "new user"
    ELSE IF ~OwnUser(rooms[code].users, u)
         THEN "Failed to join room"   \* inherited value: socketIds is undefined
    ELSE IF ~Includes(UserEntry(rooms[code].users, u).socketIds, c) THEN "re-joined"
    ELSE "already present"

\* Mutant of JoinUsers: the socket id is pushed without the includes test.
JoinUsersAlwaysPush(users, u, c, branch) ==
    CASE branch \in {"re-joined", "already present"} ->
            SetSocketIds(users, u, Append(UserEntry(users, u).socketIds, c))
      [] OTHER -> AddUser(users, u, c)

\* Mutant of JoinUsers: a socket joining an existing username replaces the
\* entry's socketIds instead of adding its id to them.
JoinUsersOverwrites(users, u, c, branch) ==
    CASE branch = "re-joined" -> SetSocketIds(users, u, <<c>>)
      [] branch = "already present" -> users
      [] OTHER -> AddUser(users, u, c)

\* The users object joinRoom leaves in the room, by the branch taken.
JoinUsers(users, u, c, branch) ==
    CASE branch = "re-joined" ->
            SetSocketIds(users, u, Append(UserEntry(users, u).socketIds, c))
      [] branch = "already present" -> users
      [] OTHER -> AddUser(users, u, c)

JoinSucceeds(c, code, u) ==
    JoinOutcome(c, code, u) \in {"re-joined", "already present", "new user"}

\* socket.on("joinRoom", ({roomCode, username}, callback) => ...)
JoinRoom(c, code, u, cb) ==
    /\ connected[c]
    /\ IF JoinSucceeds(c, code, u)
       THEN LET room == [rooms[code] EXCEPT
                            !.users = JoinUsers(@, u, c, JoinOutcome(c, code, u))]
                j == [joined EXCEPT ![c] = @ \cup {code}]
            IN /\ rooms' = PutRoom(code, room)
               /\ joined' = j
               /\ data' = SetData(c, Str(code), Str(u))
               /\ out' = IF cb
                         THEN Sent(<<AckJoined(code)>>, <<RoomUpdate(code, room, j)>>,
                                   <<JoinOutcome(c, code, u)>>)
                         ELSE Escaped(<<JoinOutcome(c, code, u)>>)
       ELSE /\ out' = IF cb
                      THEN Sent(<<AckError(JoinOutcome(c, code, u))>>, <<>>, <<>>)
                      ELSE Escaped(<<>>)
            /\ UNCHANGED <<rooms, joined, data>>
    /\ last' = Request("joinRoom", c, code, u, <<>>, cb)
    /\ UNCHANGED <<connected, accepted>>

\* Mutant of LeaveOutcome: a socket without a stored username is an error.
LeaveOutcomeStrict(c, code) ==
    LET u == StrOf(data[c].username)
    IN IF data[c].username = Undefined THEN "throw"
       ELSE IF ~RoomTruthy(code) \/ ~Truthy(data[c].username) THEN "skip"
       ELSE IF code \notin DOMAIN rooms THEN "throw"
       ELSE IF ~UserTruthy(rooms[code].users, u) THEN "skip"
       ELSE IF ~OwnUser(rooms[code].users, u) THEN "throw"
       ELSE "detach"

\* The outcome of leaveRoom: "detach" (the if branch), "skip" (the else branch)
\* or "throw" (a TypeError in the condition or at the filter, before any write).
LeaveOutcome(c, code) ==
    LET u == StrOf(data[c].username)
    IN IF ~RoomTruthy(code) \/ ~Truthy(data[c].username) THEN "skip"
       ELSE IF code \notin DOMAIN rooms THEN "throw"   \* room.users is undefined
       ELSE IF ~UserTruthy(rooms[code].users, u) THEN "skip"
       ELSE IF ~OwnUser(rooms[code].users, u) THEN "throw"   \* socketIds is undefined
       ELSE "detach"

\* Mutant of DetachUsers: the entry is kept when its last socket id is removed.
DetachUsersKeepsEntry(users, u, c) ==
    SetSocketIds(users, u, FilterOut(UserEntry(users, u).socketIds, c))

\* The users object after this socket's id is filtered out of users[u] and the
\* entry is deleted when no id is left (leaveRoom 152-160, disconnect 227-234).
DetachUsers(users, u, c) ==
    LET ids == FilterOut(UserEntry(users, u).socketIds, c)
    IN IF Len(ids) = 0 THEN DeleteUser(users, u) ELSE SetSocketIds(users, u, ids)

\* The console line that tells whether the detached user was removed.
DetachLog(users, u) ==
    IF OwnUser(users, u) THEN "still has sockets" ELSE "user removed"

\* The room after leaveRoom took the socket out of its user's socketIds.
LeftRoom(c, code) ==
    [rooms[code] EXCEPT !.users = DetachUsers(@, StrOf(data[c].username), c)]

\* The Room Store after leaveRoom: only the "detach" branch writes to it.
LeaveStore(c, code) ==
    IF LeaveOutcome(c, code) # "detach" THEN rooms
    ELSE IF NoUsersLeft(LeftRoom(c, code)) THEN DeleteRoom(code)
    ELSE PutRoom(code, LeftRoom(c, code))

\* What leaveRoom broadcasts: roomUpdate when the room survives the detach.
LeaveEmit(c, code) ==
    IF LeaveOutcome(c, code) = "detach" /\ ~NoUsersLeft(LeftRoom(c, code))
    THEN <<RoomUpdate(code, LeftRoom(c, code), [joined EXCEPT ![c] = @ \ {code}])>>
    ELSE <<>>

\* callback && callback(ack): the acknowledgment, when the client sent a callback.
Callback(cb, ack) == IF cb THEN <<ack>> ELSE <<>>

\* socket.on("leaveRoom", ({roomCode}, callback) => ...)
LeaveRoom(c, code, cb) ==
    /\ connected[c]
    /\ rooms' = LeaveStore(c, code)
    /\ CASE LeaveOutcome(c, code) = "detach" ->
              LET u == StrOf(data[c].username)
                  room == LeftRoom(c, code)
              IN /\ joined' = [joined EXCEPT ![c] = @ \ {code}]
                 /\ data' = SetData(c, Undefined, Undefined)
                 /\ IF NoUsersLeft(room)
                    THEN /\ accepted' = [accepted EXCEPT ![code] = <<>>]
                         /\ out' = Sent(Callback(cb, AckOk), LeaveEmit(c, code),
                                        <<DetachLog(room.users, u), "Room deleted">>)
                    ELSE /\ accepted' = accepted
                         /\ out' = Sent(Callback(cb, AckOk), LeaveEmit(c, code),
                                        <<DetachLog(room.users, u)>>)
         [] LeaveOutcome(c, code) = "skip" ->
              /\ out' = Sent(Callback(cb, AckOk), LeaveEmit(c, code),
                             <<"unknown room or user">>)
              /\ UNCHANGED <<joined, data, accepted>>
         [] OTHER ->
              /\ out' = Sent(Callback(cb, AckError("Failed to leave room")), <<>>, <<>>)
              /\ UNCHANGED <<joined, data, accepted>>
    /\ last' = Request("leaveRoom", c, code, Absent, <<>>, cb)
    /\ UNCHANGED connected

\* The outcome of chatMessage: "accepted", the guard that drops it, or "throw"
\* (a TypeError on a value inherited from Object.prototype, absorbed by catch).
ChatOutcome(c, code, u) ==
    IF ~RoomTruthy(code) THEN "non-existent room"
    ELSE IF code \notin DOMAIN rooms THEN "throw"   \* room.users is undefined
    ELSE IF ~UserTruthy(rooms[code].users, u) THEN "not a valid participant"
    ELSE IF ~OwnUser(rooms[code].users, u) THEN "throw"   \* socketIds is undefined
    ELSE IF ~Includes(UserEntry(rooms[code].users, u).socketIds, c)
         THEN "not a valid participant"
    ELSE "accepted"

\* Mutant of PushMessage: the truncation keeps the oldest messages (slice(0, 100)).
PushMessageKeepsOldest(messages, msg) ==
    LET pushed == Append(messages, msg)
    IN IF Len(pushed) > MaxMessages THEN SubSeq(pushed, 1, MaxMessages) ELSE pushed

\* The message buffer after push and truncation (lines 200-205).
PushMessage(messages, msg) ==
    LET pushed == Append(messages, msg)
    IN IF Len(pushed) > MaxMessages THEN SliceLast(pushed, MaxMessages) ELSE pushed

\* socket.on("chatMessage", ({roomCode, username, message}) => ...), with `now`
\* the value of Date.now().
ChatMessage(c, code, u, m, now) ==
    /\ connected[c]
    /\ IF ChatOutcome(c, code, u) = "accepted"
       THEN LET msg == [username |-> u, message |-> Trim(m), time |-> now]
            IN /\ rooms' = [rooms EXCEPT ![code].messages = PushMessage(@, msg)]
               /\ accepted' = [accepted EXCEPT ![code] = Append(@, msg)]
               /\ out' = Sent(<<>>, <<ChatEmit(code, msg, joined)>>, <<"accepted">>)
       ELSE /\ out' = Sent(<<>>, <<>>, <<ChatOutcome(c, code, u)>>)
            /\ UNCHANGED <<rooms, accepted>>
    /\ last' = Request("chatMessage", c, code, u, m, FALSE)
    /\ UNCHANGED <<data, joined, connected>>

\* The outcome of the disconnect handler's condition (line 222): "detach",
\* "skip" (the else branch), or "throw" on a value inherited from
\* Object.prototype (no state is written before the throw).
DisconnectOutcome(c) ==
    LET code == StrOf(data[c].currentRoomCode)
        u == StrOf(data[c].username)
    IN IF ~Truthy(data[c].currentRoomCode) \/ ~RoomTruthy(code)
            \/ ~Truthy(data[c].username) THEN "skip"
       ELSE IF code \notin DOMAIN rooms THEN "throw"
       ELSE IF ~UserTruthy(rooms[code].users, u) THEN "skip"
       ELSE IF ~OwnUser(rooms[code].users, u) THEN "throw"
       ELSE "detach"

\* socket.on("disconnect", (reason) => ...): the transport has taken the socket
\* out of its rooms before the handler runs.
Disconnect(c) ==
    /\ connected[c]
    /\ connected' = [connected EXCEPT ![c] = FALSE]
    /\ LET j == [joined EXCEPT ![c] = {}]
           code == StrOf(data[c].currentRoomCode)
           u == StrOf(data[c].username)
       IN /\ joined' = j
          /\ IF DisconnectOutcome(c) = "detach"
             THEN LET room == [rooms[code] EXCEPT !.users = DetachUsers(@, u, c)]
                  IN IF NoUsersLeft(room)
                     THEN /\ rooms' = DeleteRoom(code)
                          /\ accepted' = [accepted EXCEPT ![code] = <<>>]
                          /\ out' = Sent(<<>>, <<>>,
                                         <<DetachLog(room.users, u), "Room deleted">>)
                     ELSE /\ rooms' = PutRoom(code, room)
                          /\ accepted' = accepted
                          /\ out' = Sent(<<>>, <<RoomUpdate(code, room, j)>>,
                                         <<DetachLog(room.users, u)>>)
             ELSE /\ out' = Sent(<<>>, <<>>, <<"not associated">>)
                  /\ UNCHANGED <<rooms, accepted>>
    /\ last' = Request("disconnect", c, Absent, Absent, <<>>, FALSE)
    /\ UNCHANGED data

\* ------------------------------------------------------- the specifications

\* The state after the server has started and the sockets have connected.
Init ==
    /\ rooms = <<>>
    /\ data = [c \in Conns |-> [currentRoomCode |-> Undefined, username |-> Undefined]]
    /\ joined = [c \in Conns |-> {}]
    /\ connected = [c \in Conns |-> TRUE]
    /\ accepted = [code \in GenCodes |-> <<>>]
    /\ last = Request("connection", 0, Absent, Absent, <<>>, FALSE)
    /\ out = Sent(<<>>, <<>>, <<>>)

\* A chat text with surrounding whitespace: NBSP "hi" CR LF.
Hi == <<160, 104, 105, 13, 10>>

\* Whether a request comes with an acknowledgment callback.
Callbacks == {TRUE, FALSE}

\* The inherited property name the specifications send as a room code or as a
\* username: every name of PrototypeKeys takes the same branches.
SentKeys == {"constructor"}

\* Requests that come with an acknowledgment callback.
WithCallback == {TRUE}

\* Spec: one room at a time, under either generated code; a regular and the
\* empty username; client-supplied room codes that are a generated code or a
\* name inherited from Object.prototype.  createRoom comes with or without a
\* callback, joinRoom and leaveRoom with one.
MainConns == 1 .. NumConns
MainCodes == GenCodes \cup SentKeys
MainUsers == {"alice", ""}

Next ==
    \/ \E c \in MainConns, u \in MainUsers, code \in GenCodes, cb \in Callbacks :
          DOMAIN rooms = {} /\ CreateRoom(c, u, code, 0, cb)
    \/ \E c \in MainConns, code \in MainCodes, u \in MainUsers, cb \in WithCallback :
          JoinRoom(c, code, u, cb)
    \/ \E c \in MainConns, code \in MainCodes, cb \in WithCallback :
          LeaveRoom(c, code, cb)
    \/ \E c \in MainConns : Disconnect(c)

Spec == Init /\ [][Next]_vars

\* SpecRooms: both generated codes, so up to two rooms at a time; one
\* username; chat within a short buffer.  createRoom comes with or without a
\* callback, joinRoom and leaveRoom with one.
RoomsConns == 1 .. NumConns
RoomsUsers == {"alice"}

NextRooms ==
    \/ \E c \in RoomsConns, u \in RoomsUsers, code \in GenCodes, cb \in Callbacks :
          CreateRoom(c, u, code, 0, cb)
    \/ \E c \in RoomsConns, code \in GenCodes, u \in RoomsUsers, cb \in WithCallback :
          JoinRoom(c, code, u, cb)
    \/ \E c \in RoomsConns, code \in GenCodes, cb \in WithCallback :
          LeaveRoom(c, code, cb)
    \/ \E c \in RoomsConns, code \in GenCodes, u \in RoomsUsers :
          /\ code \in DOMAIN rooms => Len(rooms[code].messages) < MaxMsgs
          /\ ChatMessage(c, code, u, Hi, 0)
    \/ \E c \in RoomsConns : Disconnect(c)

SpecRooms == Init /\ [][NextRooms]_vars

\* SpecFull: one room at a time, under either generated code, and more
\* usernames than a room holds, one of them an array index.  Socket 1 supplies
\* any of them and also tries joinRoom with a username inherited from
\* Object.prototype; every other socket is a further tab of "ana".  Every
\* request comes with a callback.
FullConns == 1 .. NumConnsFull
FullUsers == {"ana", "ben", "cat", "dan", "7"}
FullNames(c) == IF c = 1 THEN FullUsers ELSE {"ana"}
FullJoinNames(c) == IF c = 1 THEN FullUsers \cup SentKeys ELSE {"ana"}

NextFull ==
    \/ \E c \in FullConns, code \in GenCodes, cb \in WithCallback :
          \E u \in FullNames(c) : DOMAIN rooms = {} /\ CreateRoom(c, u, code, 0, cb)
    \/ \E c \in FullConns, code \in GenCodes, cb \in WithCallback :
          \E u \in FullJoinNames(c) : JoinRoom(c, code, u, cb)
    \/ \E c \in FullConns, code \in GenCodes, cb \in WithCallback :
          LeaveRoom(c, code, cb)
    \/ \E c \in FullConns : Disconnect(c)

SpecFull == Init /\ [][NextFull]_vars

\* SpecChat: one room at a time, under either generated code, and one
\* username; a room accepts up to MaxAccepted messages, each stamped with its
\* rank since the room was created.  joinRoom comes with or without a
\* callback, createRoom and leaveRoom with one.
ChatConns == 1 .. NumConns

NextChat ==
    \/ \E c \in ChatConns, code \in GenCodes, cb \in WithCallback :
          DOMAIN rooms = {} /\ CreateRoom(c, "alice", code, 0, cb)
    \/ \E c \in ChatConns, code \in GenCodes, cb \in Callbacks :
          JoinRoom(c, code, "alice", cb)
    \/ \E c \in ChatConns, code \in GenCodes, cb \in WithCallback :
          LeaveRoom(c, code, cb)
    \/ \E c \in ChatConns, code \in GenCodes :
          /\ Len(accepted[code]) < MaxAccepted
          /\ ChatMessage(c, code, "alice", Hi, Len(accepted[code]))
    \/ \E c \in ChatConns : Disconnect(c)

SpecChat == Init /\ [][NextChat]_vars

\* ------------------------------------------------------------- the claims

\* Every username a handler can be given.
UserNames == MainUsers \cup RoomsUsers \cup FullUsers \cup PrototypeKeys

\* Socket c is connected and its recorded association is (code, u).
Attached(c, code, u) ==
    /\ connected[c]
    /\ data[c].currentRoomCode = Str(code)
    /\ data[c].username = Str(u)

\* The room code and the username of a socket's association, when it has one.
RoomOf(c) == StrOf(data[c].currentRoomCode)
NameOf(c) == StrOf(data[c].username)

\* The usernames a roster lists.
RosterNames(roster) == {roster[i].username : i \in 1 .. Len(roster)}

\* No element of the sequence occurs twice.
NoRepeats(s) == \A i, k \in 1 .. Len(s) : s[i] = s[k] => i = k

\* The socket ids of rooms[code].users[u], or none when there is no such entry.
IdsOf(code, u) ==
    IF code \in DOMAIN rooms /\ OwnUser(rooms[code].users, u)
    THEN UserEntry(rooms[code].users, u).socketIds
    ELSE <<>>

\* C1: every roomUpdate roster of a room lists no username twice, and lists a
\* username exactly when some connected socket is currently attached to that
\* username in that room.
C1_RosterIsAttachedUsers ==
    \A i \in 1 .. Len(out.emit) :
        out.emit[i].event = "roomUpdate" =>
            /\ NoRepeats(ObjectKeys(out.emit[i].users))
            /\ \A u \in UserNames :
                  u \in RosterNames(out.emit[i].users)
                      <=> \E c \in Conns : Attached(c, out.emit[i].room, u)

\* C2: a chatMessage is appended and broadcast only if the sender's recorded
\* association is exactly the room code and username of the message.
C2_ChatOnlyFromAssociation ==
    (last.op = "chatMessage" /\ out.emit # <<>>) =>
        /\ data[last.conn].currentRoomCode = Str(last.roomCode)
        /\ data[last.conn].username = Str(last.username)

\* C3: every connected socket is in the socketIds of at most one UserEntry over
\* all rooms, and it is in rooms[r].users[u] exactly when its recorded
\* association is (r, u).
C3_OneAttachmentPerSocket ==
    \A c \in Conns : connected[c] =>
        \A code \in GenCodes, u \in UserNames :
            Includes(IdsOf(code, u), c)
                <=> (data[c].currentRoomCode = Str(code) /\ data[c].username = Str(u))

\* C4: a user attached through two sockets stays in users while one of the two
\* is still attached; once both have disconnected the UserEntry is gone; and a
\* disconnect that removes the last user deletes the room, so that joinRoom with
\* its code answers "Room not found".
C4_TwoSocketsThenNone ==
    \A code \in GenCodes, u \in UserNames :
        \A c1, c2 \in Conns :
            (c1 # c2 /\ data[c1] = data[c2]
                /\ data[c1] = [currentRoomCode |-> Str(code), username |-> Str(u)]) =>
                /\ (connected[c1] /\ last.op = "disconnect" /\ last.conn = c2) =>
                       (code \in DOMAIN rooms /\ OwnUser(rooms[code].users, u))
                /\ (~connected[c1] /\ ~connected[c2]) =>
                       (~Includes(IdsOf(code, u), c1) /\ ~Includes(IdsOf(code, u), c2))
                /\ (last.op = "disconnect" /\ last.conn = c2 /\ ~connected[c1]
                        /\ out.log = <<"user removed", "Room deleted">>) =>
                       (code \notin DOMAIN rooms
                           /\ JoinOutcome(c1, code, u) = "Room not found")

\* C5: joinRoom with a room code that is not a key of rooms acknowledges
\* {success: false, error: "Room not found"} to a client that sent a callback,
\* broadcasts nothing and leaves rooms and the caller's association unchanged.
C5_JoinUnknownRoom ==
    [][(last'.op = "joinRoom" /\ last'.roomCode \notin DOMAIN rooms) =>
          /\ last'.callback => out'.ack = <<AckError("Room not found")>>
          /\ out'.emit = <<>>
          /\ rooms' = rooms
          /\ data' = data]_vars

\* C6: joinRoom with a callback on an existing room acknowledges "Room is
\* full" exactly when the room holds 4 distinct usernames and the joining username is not one of
\* them, and then changes and broadcasts nothing; a join of a room with 4
\* usernames under a username it holds succeeds, has the socket in that user's
\* socketIds and leaves 4 usernames.
C6_RoomFullExactly ==
    [][(last'.op = "joinRoom" /\ last'.callback /\ last'.roomCode \in DOMAIN rooms) =>
          LET users == rooms[last'.roomCode].users
              full == Cardinality(RosterNames(users)) = MaxUsers
              holds == last'.username \in RosterNames(users)
          IN /\ (out'.ack = <<AckError("Room is full")>>) <=> (full /\ ~holds)
             /\ (full /\ ~holds) =>
                   (rooms' = rooms /\ data' = data /\ out'.emit = <<>>)
             /\ (full /\ holds) =>
                   /\ out'.ack = <<AckJoined(last'.roomCode)>>
                   /\ Includes(UserEntry(rooms'[last'.roomCode].users,
                                          last'.username).socketIds, last'.conn)
                   /\ Cardinality(RosterNames(rooms'[last'.roomCode].users))
                         = MaxUsers]_vars

\* C7: every room holds at most 4 distinct usernames.
C7_AtMostFourUsers ==
    \A code \in DOMAIN rooms :
        Cardinality(RosterNames(rooms[code].users)) <= MaxUsers

\* C7 witness: a room holds 4 usernames and a join under a fifth was refused.
C7_Witness ==
    /\ last.op = "joinRoom"
    /\ out.ack = <<AckError("Room is full")>>
    /\ last.roomCode \in DOMAIN rooms
    /\ Cardinality(RosterNames(rooms[last.roomCode].users)) = MaxUsers
    /\ last.username \notin RosterNames(rooms[last.roomCode].users)

\* C8: a room's buffer holds at most 100 messages and is, in acceptance order,
\* the most recent min(n, 100) of the n messages accepted since the room was
\* created; after the 101st the 1st is absent and the 101st is the last element.
C8_BufferIsMostRecent ==
    \A code \in DOMAIN rooms :
        LET n == Len(accepted[code])
            kept == IF n < MaxMessages THEN n ELSE MaxMessages
            msgs == rooms[code].messages
        IN /\ Len(msgs) <= MaxMessages
           /\ Len(msgs) = kept
           /\ \A i \in 1 .. kept : msgs[i] = accepted[code][n - kept + i]
           /\ n = MaxMessages + 1 =>
                 /\ \A i \in 1 .. Len(msgs) : msgs[i] # accepted[code][1]
                 /\ msgs[Len(msgs)] = accepted[code][n]

\* C8 witness: the 101st message of a room has just been accepted.
C8_Witness ==
    /\ last.op = "chatMessage"
    /\ out.log = <<"accepted">>
    /\ last.roomCode \in DOMAIN rooms
    /\ Len(accepted[last.roomCode]) = MaxMessages + 1

\* C9: no room of the store has an empty users object.
C9_NoEmptyRoom ==
    \A code \in DOMAIN rooms : rooms[code].users # <<>>

\* C9 witness: a disconnect removed the last user of a room and deleted it,
\* while another room lives on.
C9_Witness ==
    /\ last.op = "disconnect"
    /\ out.log = <<"user removed", "Room deleted">>
    /\ RoomOf(last.conn) \notin DOMAIN rooms
    /\ DOMAIN rooms # {}

\* C10: every UserEntry has a non-empty socketIds without a repeated id, and
\* every attached socket has a UserEntry: its id is in the socketIds of the
\* username and room of its association.
C10_EntriesHaveSockets ==
    /\ \A code \in DOMAIN rooms :
          \A i \in 1 .. Len(rooms[code].users) :
              /\ rooms[code].users[i].socketIds # <<>>
              /\ NoRepeats(rooms[code].users[i].socketIds)
    /\ \A c \in Conns :
          (connected[c] /\ data[c].currentRoomCode # Undefined) =>
              Includes(IdsOf(RoomOf(c), NameOf(c)), c)

\* C10 witness: a leaveRoom removed a user's last socket and with it the
\* UserEntry, in a room that lives on with another user.
C10_Witness ==
    /\ last.op = "leaveRoom"
    /\ out.log = <<"user removed">>
    /\ last.roomCode \in DOMAIN rooms
    /\ rooms[last.roomCode].users # <<>>

\* C11: the disconnect of a socket whose association is (r, u) changes the Room
\* Store and broadcasts exactly as a leaveRoom(r) of that socket would have done
\* in the same state: the same id filtered out, the entry and the room deleted
\* in the same cases, the same roomUpdate sent in the same cases.
C11_DisconnectIsLeave ==
    [][(last'.op = "disconnect" /\ connected[last'.conn]
          /\ data[last'.conn].currentRoomCode # Undefined) =>
            /\ rooms' = LeaveStore(last'.conn, RoomOf(last'.conn))
            /\ out'.emit = LeaveEmit(last'.conn, RoomOf(last'.conn))]_vars

\* The socket ids of store[code].users[u] in a given Room Store.
IdsIn(store, code, u) ==
    IF code \in DOMAIN store /\ OwnUser(store[code].users, u)
    THEN UserEntry(store[code].users, u).socketIds
    ELSE <<>>

\* The socket id occurs in some UserEntry of the Room Store.
HeldIn(store, c) ==
    \E code \in DOMAIN store :
        \E i \in 1 .. Len(store[code].users) :
            Includes(store[code].users[i].socketIds, c)

\* C12: a leaveRoom of the room the socket is associated with, acknowledged by
\* {success: true}, has detached the socket: its id is in no UserEntry, its
\* association is cleared, no entry is left without ids and no room without
\* users, roomUpdate is broadcast exactly when the room survives, and every
\* other room is as it was.
C12_LeaveDetaches ==
    [][(/\ last'.op = "leaveRoom"
        /\ data[last'.conn].currentRoomCode # Undefined
        /\ last'.roomCode = RoomOf(last'.conn)
        /\ out'.ack = <<AckOk>>) =>
            /\ ~HeldIn(rooms', last'.conn)
            /\ data'[last'.conn] = [currentRoomCode |-> Undefined, username |-> Undefined]
            /\ \A code \in DOMAIN rooms' :
                  /\ rooms'[code].users # <<>>
                  /\ \A i \in 1 .. Len(rooms'[code].users) :
                        rooms'[code].users[i].socketIds # <<>>
            /\ (last'.roomCode \in DOMAIN rooms') <=>
                  (/\ Len(out'.emit) = 1
                   /\ out'.emit[1].event = "roomUpdate"
                   /\ out'.emit[1].room = last'.roomCode)
            /\ \A code \in DOMAIN rooms \ {last'.roomCode} :
                  code \in DOMAIN rooms' /\ rooms'[code] = rooms[code]]_vars

\* The roster is the snapshot of the users mapping: the same usernames in the
\* same order, each with the first socket id of its entry.
RosterShows(roster, users) ==
    /\ Len(roster) = Len(users)
    /\ \A i \in 1 .. Len(users) :
          /\ roster[i].username = users[i].username
          /\ users[i].socketIds # <<>>
          /\ roster[i].id = users[i].socketIds[1]

\* C13: a handler that creates a room or changes the users mapping of a room
\* that lives on broadcasts a roomUpdate to that room, and every roomUpdate
\* carries the snapshot of the room as the handler leaves it; hence between
\* handlers the last roomUpdate sent to a room equals its current snapshot.
C13_RoomUpdateAfterChange ==
    [][/\ \A code \in DOMAIN rooms' :
              (code \notin DOMAIN rooms \/ rooms'[code].users # rooms[code].users) =>
                  /\ Len(out'.emit) = 1
                  /\ out'.emit[1].event = "roomUpdate"
                  /\ out'.emit[1].room = code
       /\ \A i \in 1 .. Len(out'.emit) :
              out'.emit[i].event = "roomUpdate" =>
                  /\ out'.emit[i].room \in DOMAIN rooms'
                  /\ RosterShows(out'.emit[i].users, rooms'[out'.emit[i].room].users)]_vars

\* C14: a leaveRoom of a socket without an association changes neither the Room
\* Store nor any association nor the transport rooms, broadcasts nothing and is
\* acknowledged by {success: true} when the client sent a callback (and raises
\* no error when it did not); and after any leaveRoom a second identical
\* leaveRoom would write nothing (it is not in the detach branch and the Room
\* Store it leaves is the one it found).
C14_LeaveIdempotent ==
    [][last'.op = "leaveRoom" =>
          /\ (data[last'.conn].currentRoomCode = Undefined
                /\ data[last'.conn].username = Undefined) =>
                    /\ rooms' = rooms
                    /\ data' = data
                    /\ joined' = joined
                    /\ out'.emit = <<>>
                    /\ out'.error = <<>>
                    /\ out'.ack = IF last'.callback THEN <<AckOk>> ELSE <<>>
          /\ (LeaveOutcome(last.conn, last.roomCode) # "detach")'
          /\ (LeaveStore(last.conn, last.roomCode) = rooms)'
          /\ (LeaveEmit(last.conn, last.roomCode) = <<>>)']_vars

\* C14 witness: a socket that had left its room issued leaveRoom for it again,
\* while the room lives on; the request was acknowledged and nothing was sent.
C14_Witness ==
    /\ last.op = "leaveRoom"
    /\ last.roomCode \in DOMAIN rooms
    /\ data[last.conn].username = Undefined
    /\ out.log = <<"unknown room or user">>
    /\ out.ack = <<AckOk>>
    /\ out.emit = <<>>

\* C15: a joinRoom(r, u) of a socket whose id is already in rooms[r].users[u]
\* leaves the Room Store as it was (no second copy of the id, the order of the
\* ids kept) and is acknowledged as a success to a client that sent a
\* callback; and after any joinRoom that took a success branch a second
\* identical joinRoom would find the id present and leave the users mapping of
\* the room as it is.
C15_JoinIdempotent ==
    [][last'.op = "joinRoom" =>
          /\ Includes(IdsOf(last'.roomCode, last'.username), last'.conn) =>
                /\ rooms' = rooms
                /\ last'.callback => out'.ack = <<AckJoined(last'.roomCode)>>
          /\ JoinSucceeds(last'.conn, last'.roomCode, last'.username) =>
                /\ (JoinOutcome(last.conn, last.roomCode, last.username)
                        = "already present")'
                /\ (JoinUsers(rooms[last.roomCode].users, last.username, last.conn,
                              JoinOutcome(last.conn, last.roomCode, last.username))
                        = rooms[last.roomCode].users)']_vars

\* C15 witness: a socket joined again the room and username it already was in,
\* next to an older socket of the same user whose id stays first.
C15_Witness ==
    /\ last.op = "joinRoom"
    /\ out.log = <<"already present">>
    /\ Len(IdsOf(last.roomCode, last.username)) = 2
    /\ IdsOf(last.roomCode, last.username)[2] = last.conn

\* The number of UserEntries of a users mapping that carry the username.
EntriesNamed(users, u) ==
    Cardinality({i \in 1 .. Len(users) : users[i].username = u})

\* C16: while two distinct sockets are both attached to the same room under
\* the same username, whichever joined first, the room has exactly one
\* UserEntry for that username, its socketIds hold both ids once each, and a
\* roomUpdate of the room lists the username once; the entry is still there
\* as long as one of two such sockets has neither left nor disconnected.
C16_SharedUserEntry ==
    \A c1, c2 \in Conns : \A code \in DOMAIN rooms : \A u \in UserNames :
        (/\ c1 # c2
         /\ data[c1] = [currentRoomCode |-> Str(code), username |-> Str(u)]
         /\ data[c2] = [currentRoomCode |-> Str(code), username |-> Str(u)]
         /\ connected[c1]) =>
            /\ EntriesNamed(rooms[code].users, u) = 1
            /\ Includes(IdsOf(code, u), c1)
            /\ NoRepeats(IdsOf(code, u))
            /\ connected[c2] => {c1, c2} \subseteq
                    {IdsOf(code, u)[i] : i \in 1 .. Len(IdsOf(code, u))}
            /\ \A i \in 1 .. Len(out.emit) :
                  (out.emit[i].event = "roomUpdate" /\ out.emit[i].room = code) =>
                      Cardinality({k \in 1 .. Len(out.emit[i].users) :
                                      out.emit[i].users[k].username = u}) = 1

\* C16 witness: socket 2 was in the room first and socket 1 joined it under
\* the same username; both are attached and the entry holds the ids 2, 1.
C16_Witness ==
    /\ last.op = "joinRoom"
    /\ last.conn = 1
    /\ Attached(1, last.roomCode, last.username)
    /\ Attached(2, last.roomCode, last.username)
    /\ IdsOf(last.roomCode, last.username) = <<2, 1>>
    /\ Len(out.emit) = 1
    /\ RosterNames(out.emit[1].users) = {last.username}

\* C17: createRoom takes a code that is not a key of the Room Store, leaves
\* every room that existed as it was, adds exactly one room, whose users
\* mapping is the creator's username with the creator's id alone and whose
\* message buffer is empty, associates the creator with (new code, username),
\* and broadcasts to the new room the roster of that one username.
C17_CreateRoomFrame ==
    [][last'.op = "createRoom" =>
          /\ last'.roomCode \notin DOMAIN rooms
          /\ DOMAIN rooms' = DOMAIN rooms \cup {last'.roomCode}
          /\ \A code \in DOMAIN rooms : rooms'[code] = rooms[code]
          /\ rooms'[last'.roomCode].users =
                <<[username |-> last'.username, socketIds |-> <<last'.conn>>]>>
          /\ rooms'[last'.roomCode].messages = <<>>
          /\ data'[last'.conn] =
                [currentRoomCode |-> Str(last'.roomCode),
                 username |-> Str(last'.username)]
          /\ \A c \in Conns \ {last'.conn} : data'[c] = data[c]
          /\ Len(out'.emit) = 1
          /\ out'.emit[1].event = "roomUpdate"
          /\ out'.emit[1].room = last'.roomCode
          /\ out'.emit[1].users =
                <<[id |-> last'.conn, username |-> last'.username]>>]_vars

\* C18: for a user that is in a room before and after a handler, the first id
\* of the entry (the id every roomUpdate shows for the username) changes only
\* when the socket with that id leaves the room or disconnects, and then to the
\* second id; it does change to the second id whenever that socket leaves
\* the room or disconnects while the entry holds another id; and every
\* roomUpdate shows the first id of each entry.
C18_DisplayIdIsOldest ==
    [][/\ \A code \in GenCodes : \A u \in UserNames :
            (IdsIn(rooms, code, u) # <<>> /\ IdsIn(rooms', code, u) # <<>>) =>
                /\ IdsIn(rooms', code, u)[1] # IdsIn(rooms, code, u)[1] =>
                      /\ last'.op \in {"leaveRoom", "disconnect"}
                      /\ last'.conn = IdsIn(rooms, code, u)[1]
                      /\ Len(IdsIn(rooms, code, u)) >= 2
                      /\ IdsIn(rooms', code, u)[1] = IdsIn(rooms, code, u)[2]
                /\ (/\ last'.conn = IdsIn(rooms, code, u)[1]
                    /\ connected[last'.conn]
                    /\ Len(IdsIn(rooms, code, u)) >= 2
                    /\ \/ last'.op = "disconnect"
                       \/ last'.op = "leaveRoom" /\ last'.roomCode = code) =>
                      IdsIn(rooms', code, u)[1] = IdsIn(rooms, code, u)[2]
       /\ \A i \in 1 .. Len(out'.emit) :
            out'.emit[i].event = "roomUpdate" =>
                \A k \in 1 .. Len(out'.emit[i].users) :
                    /\ IdsIn(rooms', out'.emit[i].room,
                             out'.emit[i].users[k].username) # <<>>
                    /\ out'.emit[i].users[k].id =
                          IdsIn(rooms', out'.emit[i].room,
                                out'.emit[i].users[k].username)[1]]_vars

\* C19: the id of a socket that has disconnected is in no UserEntry of any
\* room, and once every socket has disconnected the Room Store is empty.
C19_DisconnectedSocketsGone ==
    /\ \A c \in Conns : ~connected[c] => ~HeldIn(rooms, c)
    /\ (\A c \in Conns : ~connected[c]) => DOMAIN rooms = {}

\* C20: leaveRoom of the associated room and disconnect detach a socket
\* whatever its username, the empty string included: after the handler the
\* socket's id is no longer in the entry of its association, and when the
\* socket was the only id of the only user the room is deleted.
C20_UniformUsernames ==
    [][(/\ last'.op \in {"leaveRoom", "disconnect"}
        /\ connected[last'.conn]
        /\ data[last'.conn].currentRoomCode # Undefined
        /\ last'.op = "leaveRoom" =>
              last'.roomCode = RoomOf(last'.conn)) =>
            /\ ~Includes(IdsIn(rooms', RoomOf(last'.conn), NameOf(last'.conn)),
                         last'.conn)
            /\ (/\ RoomOf(last'.conn) \in DOMAIN rooms
                /\ Len(rooms[RoomOf(last'.conn)].users) = 1
                /\ IdsIn(rooms, RoomOf(last'.conn), NameOf(last'.conn))
                      = <<last'.conn>>) =>
                  RoomOf(last'.conn) \notin DOMAIN rooms']_vars

====
